---- MODULE Spec2Model ----
(***************************************************************************)
(* Control-flow-graph construction (lib/cfg: buildCfg) and the layered     *)
(* layout of a Cfg (components/CfgView.tsx: layoutCfg, backEdges).         *)
(*                                                                         *)
(* Conventions of the translation                                          *)
(*   - a JavaScript string that the code slices, trims or concatenates is  *)
(*     a sequence of one-character strings; block ids and astPaths, which  *)
(*     the code only builds by concatenation and compares, are strings;    *)
(*   - `T | null` is a sequence of length at most one (None, Some(x));     *)
(*   - an absent (undefined) edge label is the one-element sequence        *)
(*     Undefined, which no text equals (its element is not one character); *)
(*   - a function that mutates ctx or the module-level counter takes the   *)
(*     world w = [blocks, edges, code, nextBlockId, trace] and returns the *)
(*     new world beside its result.  w.trace is a history of the calls of  *)
(*     buildNode/buildChildren (what each returned); the code has no such  *)
(*     field and nothing in the translation reads it.                      *)
(***************************************************************************)
EXTENDS Integers, Sequences, FiniteSets, TLC

None == <<>>
Some(x) == <<x>>
Undefined == <<"undefined">>

\* statement order: x is computed before y (keeps the evaluation of a chain of
\* worlds from nesting)
Then(x, y) == <<x, y>>[2]

Range(s) == {s[i] : i \in 1..Len(s)}

\* a function on 1..n as an array: every element is computed, once
Array(f) == SubSeq(f, 1, Len(f))
MinOf(S) == CHOOSE x \in S : \A y \in S : x <= y
MaxOf(S) == CHOOSE x \in S : \A y \in S : x >= y

\* ------------------------------------------------------------------------
\* Node-kind tables
\* ------------------------------------------------------------------------
IF_TYPES ==
  {"if_statement", "if_expression", "if_let_expression",
   "conditional_expression", "ternary_expression"}

LOOP_TYPES ==
  {"for_statement", "for_expression", "for_in_statement",
   "while_statement", "while_expression", "loop_expression",
   "do_statement", "for_range_statement"}

MATCH_TYPES == {"match_expression", "switch_statement", "switch_expression"}

RETURN_TYPES ==
  {"return_statement", "return_expression",
   "break_statement", "break_expression",
   "continue_statement", "continue_expression",
   "throw_statement", "raise_statement"}

FUNCTION_TYPES ==
  {"function_declaration", "function_definition", "function_item",
   "method_definition", "method_declaration",
   "arrow_function", "lambda", "lambda_expression",
   "closure_expression", "let_declaration", "value_definition"}

CONTAINER_TYPES ==
  {"program", "source_file", "source",
   "block", "statement_block", "compound_statement",
   "declaration_list", "field_declaration_list",
   "expression_statement", "lexical_declaration",
   "variable_declaration", "short_var_declaration",
   "assignment_statement", "assignment_expression",
   "call_expression", "module"} \cup FUNCTION_TYPES

\* ------------------------------------------------------------------------
\* Text helpers
\* ------------------------------------------------------------------------
WhiteSpace == {" ", "\t", "\n", "\r", "\f"}

\* String.prototype.slice(a, b) for 0 <= a, 0 <= b
Slice(s, a, b) ==
  LET lo == IF a > Len(s) THEN Len(s) ELSE a
      hi == IF b > Len(s) THEN Len(s) ELSE b
  IN IF lo >= hi THEN <<>> ELSE SubSeq(s, lo + 1, hi)

\* s.split('\n')[0]
FirstLine(s) ==
  LET nl == {i \in 1..Len(s) : s[i] = "\n"}
  IN IF nl = {} THEN s ELSE SubSeq(s, 1, MinOf(nl) - 1)

\* String.prototype.trim()
Trim(s) ==
  LET ink == {i \in 1..Len(s) : s[i] \notin WhiteSpace}
  IN IF ink = {} THEN <<>> ELSE SubSeq(s, MinOf(ink), MaxOf(ink))

truncate(s, max) ==
  LET line == Trim(FirstLine(s))
  IN IF Len(line) > max THEN Slice(line, 0, max - 2) \o <<".", ".">> ELSE line

nodeText(node, code) == Slice(code, node.start, node.end)

SummaryMax == 48

summary(node, code, max) == truncate(nodeText(node, code), max)

\* Array.prototype.join(sep) of a sequence of texts
RECURSIVE Join(_, _)
Join(parts, sep) ==
  IF parts = <<>> THEN <<>>
  ELSE IF Len(parts) = 1 THEN parts[1]
  ELSE parts[1] \o sep \o Join(Tail(parts), sep)

\* `${i}` for a non-negative integer
RECURSIVE Digits(_)
Digits(n) ==
  LET d == <<"0", "1", "2", "3", "4", "5", "6", "7", "8", "9">>
  IN IF n < 10 THEN <<d[n + 1]>> ELSE Digits(n \div 10) \o <<d[(n % 10) + 1]>>

\* ------------------------------------------------------------------------
\* Child search
\* ------------------------------------------------------------------------
FirstOfKind(node, kinds) ==
  LET hits == {i \in 1..Len(node.children) : node.children[i].kind \in kinds}
  IN IF hits = {} THEN None ELSE Some(node.children[MinOf(hits)])

IsNamed(c) == c.isNamed

findCondition(node) ==
  LET hit == FirstOfKind(node, {"condition", "parenthesized_expression",
                                "binary_expression", "comparison_operator"})
      named == SelectSeq(node.children, IsNamed)
  IN IF hit # None THEN hit
     ELSE IF Len(named) >= 2 THEN Some(named[2])
     ELSE None

findBody(node) ==
  FirstOfKind(node, {"block", "statement_block", "compound_statement",
                     "consequence", "body"})

findElse(node) == FirstOfKind(node, {"else_clause", "else", "alternative"})

ARM_KINDS ==
  {"match_arm", "switch_case", "switch_default",
   "case_clause", "default_clause", "match_case"}

RECURSIVE findArms(_)
findArms(node) ==
  LET arms[i \in 0..Len(node.children)] ==
        IF i = 0 THEN <<>>
        ELSE LET child == node.children[i]
             IN arms[i - 1]
                \o (IF child.kind \in ARM_KINDS THEN <<child>> ELSE <<>>)
                \o (IF child.kind \in {"match_block", "switch_body"}
                    THEN findArms(child) ELSE <<>>)
  IN arms[Len(node.children)]

\* ------------------------------------------------------------------------
\* Builder
\* ------------------------------------------------------------------------
\* makeId without the increment (a fault C2 excludes)
makeId_sameId(w) == [id |-> "cfg_" \o ToString(w.nextBlockId), w |-> w]

makeId(w) ==
  [id |-> "cfg_" \o ToString(w.nextBlockId),
   w  |-> [w EXCEPT !.nextBlockId = @ + 1]]

\* makeBlock without the push (a fault C1 excludes)
makeBlock_unpushed(w, label, kind, node, astPath, statements) ==
  [block |-> [id |-> makeId(w).id, label |-> label, statements |-> statements,
              start |-> node.start, end |-> node.end,
              startPosition |-> node.startPosition,
              endPosition |-> node.endPosition,
              kind |-> kind, astPath |-> astPath],
   w |-> makeId(w).w]

makeBlock(w, label, kind, node, astPath, statements) ==
  LET m == makeId(w)
      block == [id |-> m.id,
                label |-> label,
                statements |-> statements,
                start |-> node.start,
                end |-> node.end,
                startPosition |-> node.startPosition,
                endPosition |-> node.endPosition,
                kind |-> kind,
                astPath |-> astPath]
  IN [block |-> block, w |-> [m.w EXCEPT !.blocks = Append(@, block)]]

addEdge(w, from, to, label) ==
  [w EXCEPT !.edges = Append(@, [from |-> from, to |-> to, label |-> label])]

\* for (const ex of exits) addEdge(ctx, ex, to, label)
addEdgesFrom(w, exits, to, label) ==
  [w EXCEPT !.edges =
     @ \o [j \in 1..Len(exits) |-> [from |-> exits[j], to |-> to, label |-> label]]]

\* the history entry of one call: what it made and what it returned
\* (next, edges: the counter and the length of ctx.edges when it returned)
Traced(w, op, block, astPath, parts, res) ==
  [w EXCEPT !.trace = Append(@, [op |-> op, block |-> block, path |-> astPath,
                                 parts |-> parts, res |-> res,
                                 next |-> w.nextBlockId, edges |-> Len(w.edges)])]

isContainerLike(node) ==
  /\ node.isNamed
  /\ \E i \in 1..Len(node.children) :
       node.children[i].kind \in
         (IF_TYPES \cup LOOP_TYPES \cup MATCH_TYPES \cup RETURN_TYPES \cup FUNCTION_TYPES)

RECURSIVE buildNode(_, _, _, _)
RECURSIVE buildChildren(_, _, _, _)

\* body ? buildChildren(ctx, body, astPath, code) : null
buildBody(w, node, astPath, code) ==
  IF findBody(node) # None
  THEN buildChildren(w, findBody(node)[1], astPath, code)
  ELSE [w |-> w, res |-> None]

\* --- If / conditional ---
ifLabel(node, code) ==
  LET condNode == findCondition(node)
  IN <<"i", "f", " ">>
     \o (IF condNode # None THEN summary(condNode[1], code, SummaryMax)
         ELSE <<"c", "o", "n", "d", "i", "t", "i", "o", "n">>)

\* if (r) addEdge(ctx, branchBlock.id, r.entry, label)
ifWire(r, branchId, label) ==
  IF r.res # None THEN addEdge(r.w, branchId, r.res[1].entry, label) ELSE r.w

\* exits that always hold the branch block (a fault C5 excludes)
ifExits_fallThrough(branchId, trueResult, falseResult, elseNode) ==
  (IF trueResult # None THEN trueResult[1].exits ELSE <<>>)
  \o (IF falseResult # None THEN falseResult[1].exits ELSE <<>>)
  \o <<branchId>>

\* the "Collect exits" lines
ifExits(branchId, trueResult, falseResult, elseNode) ==
  (IF trueResult # None THEN trueResult[1].exits ELSE <<branchId>>)
  \o (IF falseResult # None THEN falseResult[1].exits
      ELSE IF elseNode = None THEN <<branchId>>
      ELSE <<>>)

\* f: the world and the result after the false branch
ifReturn(branchId, trueResult, f, elseNode, astPath) ==
  [w |-> Traced(ifWire(f, branchId, <<"f", "a", "l", "s", "e">>),
                "if", branchId, astPath, <<trueResult, f.res>>,
                Some([entry |-> branchId,
                      exits |-> ifExits(branchId, trueResult, f.res, elseNode)])),
   res |-> Some([entry |-> branchId,
                 exits |-> ifExits(branchId, trueResult, f.res, elseNode)])]

\* t: the world and the result after the true branch
ifFalse(branchId, t, node, astPath, code) ==
  Then(t,
       ifReturn(branchId, t.res,
                IF findElse(node) # None
                THEN buildChildren(ifWire(t, branchId, <<"t", "r", "u", "e">>),
                                   findElse(node)[1], astPath, code)
                ELSE [w |-> ifWire(t, branchId, <<"t", "r", "u", "e">>), res |-> None],
                findElse(node), astPath))

ifTrue(mb, node, astPath, code) ==
  ifFalse(mb.block.id, buildBody(mb.w, node, astPath, code), node, astPath, code)

buildNode_if(w, node, astPath, code) ==
  ifTrue(makeBlock(w, ifLabel(node, code), "branch", node, astPath,
                   <<ifLabel(node, code)>>),
         node, astPath, code)

\* --- Loops ---
\* node.kind.startsWith('for') ? 'for' : 'while', for the kinds of LOOP_TYPES
loopKeyword(kind) ==
  IF kind \in {"for_statement", "for_expression", "for_in_statement", "for_range_statement"}
  THEN <<"f", "o", "r">> ELSE <<"w", "h", "i", "l", "e">>

loopLabel(node, code) ==
  LET condNode == findCondition(node)
      condText == IF condNode # None THEN summary(condNode[1], code, SummaryMax) ELSE <<>>
  IN IF condText # <<>> THEN loopKeyword(node.kind) \o <<" ">> \o condText
     ELSE loopKeyword(node.kind)

\* wiring without the edges back to the loop block (a fault C6 excludes)
loopWire_noNext(w, loopId, bodyResult) ==
  IF bodyResult # None
  THEN addEdge(w, loopId, bodyResult[1].entry, <<"b", "o", "d", "y">>)
  ELSE w

\* wiring of a loop body that produced blocks
loopWire(w, loopId, bodyResult) ==
  IF bodyResult # None
  THEN addEdgesFrom(addEdge(w, loopId, bodyResult[1].entry, <<"b", "o", "d", "y">>),
                    bodyResult[1].exits, loopId, <<"n", "e", "x", "t">>)
  ELSE w

\* the exits of the body returned with the loop block (a fault C17 excludes)
loopReturn_bodyExits(loopId, b, astPath) ==
  [w |-> Traced(loopWire(b.w, loopId, b.res), "loop", loopId, astPath, <<b.res>>,
                Some([entry |-> loopId,
                      exits |-> (IF b.res # None THEN b.res[1].exits ELSE <<>>)
                                \o <<loopId>>])),
   res |-> Some([entry |-> loopId,
                 exits |-> (IF b.res # None THEN b.res[1].exits ELSE <<>>)
                           \o <<loopId>>])]

\* b: the world and the result after the body
loopReturn(loopId, b, astPath) ==
  [w |-> Traced(loopWire(b.w, loopId, b.res), "loop", loopId, astPath, <<b.res>>,
                Some([entry |-> loopId, exits |-> <<loopId>>])),
   res |-> Some([entry |-> loopId, exits |-> <<loopId>>])]

loopBody(mb, node, astPath, code) ==
  loopReturn(mb.block.id, buildBody(mb.w, node, astPath, code), astPath)

buildNode_loop(w, node, astPath, code) ==
  loopBody(makeBlock(w, loopLabel(node, code), "loop", node, astPath,
                     <<loopLabel(node, code)>>),
           node, astPath, code)

\* --- Match / switch ---
armLabel(arm, i, code) ==
  LET named == SelectSeq(arm.children, IsNamed)
      joined == Join([k \in 1..Len(named) |-> summary(named[k], code, 20)], <<" ">>)
  IN truncate(IF joined # <<>> THEN joined ELSE <<"a", "r", "m", " ">> \o Digits(i), 24)

\* the end of one iteration of the loop over the arms; r: the arm's world and result
armDone(acc, matchId, arm, i, r, code) ==
  IF r.res # None
  THEN [w |-> addEdge(r.w, matchId, r.res[1].entry, armLabel(arm, i, code)),
        exits |-> acc.exits \o r.res[1].exits,
        parts |-> Append(acc.parts, r.res)]
  ELSE [w |-> r.w, exits |-> acc.exits, parts |-> Append(acc.parts, r.res)]

\* for (let i = ...; i < arms.length; i++); acc: the world, the exits and the
\* arms' results so far
RECURSIVE matchArms(_, _, _, _, _, _)
matchArms(acc, matchId, arms, i, astPath, code) ==
  IF i >= Len(arms) THEN acc
  ELSE Then(acc,
            matchArms(armDone(acc, matchId, arms[i + 1], i,
                              buildChildren(acc.w, arms[i + 1],
                                            astPath \o "-arm" \o ToString(i), code),
                              code),
                      matchId, arms, i + 1, astPath, code))

matchExits(matchId, exits) == IF Len(exits) = 0 THEN <<matchId>> ELSE exits

matchReturn(matchId, fin, astPath) ==
  [w |-> Traced(fin.w, "match", matchId, astPath, fin.parts,
                Some([entry |-> matchId, exits |-> matchExits(matchId, fin.exits)])),
   res |-> Some([entry |-> matchId, exits |-> matchExits(matchId, fin.exits)])]

matchBody(mb, node, astPath, code) ==
  matchReturn(mb.block.id,
              matchArms([w |-> mb.w, exits |-> <<>>, parts |-> <<>>],
                        mb.block.id, findArms(node), 0, astPath, code),
              astPath)

buildNode_match(w, node, astPath, code) ==
  matchBody(makeBlock(w, <<"m", "a", "t", "c", "h">>, "match", node, astPath,
                      <<summary(node, code, 32)>>),
            node, astPath, code)

\* --- Return / break / continue ---
\* a terminator that is its own exit (a fault C11 excludes)
returnReturn_exits(mb, astPath) ==
  [w |-> Traced(mb.w, "return", mb.block.id, astPath, <<>>,
                Some([entry |-> mb.block.id, exits |-> <<mb.block.id>>])),
   res |-> Some([entry |-> mb.block.id, exits |-> <<mb.block.id>>])]

returnReturn(mb, astPath) ==
  [w |-> Traced(mb.w, "return", mb.block.id, astPath, <<>>,
                Some([entry |-> mb.block.id, exits |-> <<>>])),
   res |-> Some([entry |-> mb.block.id, exits |-> <<>>])]

buildNode_return(w, node, astPath, code) ==
  returnReturn(makeBlock(w, summary(node, code, SummaryMax), "return", node, astPath,
                         <<summary(node, code, SummaryMax)>>),
               astPath)

\* --- Function declarations ---
fnLabel(node, code) ==
  LET fnName == FirstOfKind(node, {"identifier", "name"})
  IN IF fnName # None THEN <<"f", "n", " ">> \o summary(fnName[1], code, 24)
     ELSE <<"f", "n">>

\* mbExit: the implicit exit block, made after the edge to the body's entry
functionWire(entryId, bodyResult, mbExit, astPath) ==
  [w |-> Traced(addEdgesFrom(mbExit.w, bodyResult[1].exits, mbExit.block.id, Undefined),
                "function", entryId, astPath, <<bodyResult>>,
                Some([entry |-> entryId, exits |-> <<mbExit.block.id>>])),
   res |-> Some([entry |-> entryId, exits |-> <<mbExit.block.id>>])]

\* b: the world and the result after the body
functionReturn(entryId, b, node, astPath) ==
  IF b.res # None
  THEN functionWire(entryId, b.res,
                    makeBlock(addEdge(b.w, entryId, b.res[1].entry, Undefined),
                              <<"e", "n", "d">>, "exit", node, astPath,
                              <<<<"e", "n", "d">>>>),
                    astPath)
  ELSE [w |-> Traced(b.w, "function", entryId, astPath, <<b.res>>,
                     Some([entry |-> entryId, exits |-> <<entryId>>])),
        res |-> Some([entry |-> entryId, exits |-> <<entryId>>])]

functionBody(mbEntry, node, astPath, code) ==
  functionReturn(mbEntry.block.id, buildBody(mbEntry.w, node, astPath, code),
                 node, astPath)

buildNode_function(w, node, astPath, code) ==
  functionBody(makeBlock(w, fnLabel(node, code), "entry", node, astPath,
                         <<fnLabel(node, code)>>),
               node, astPath, code)

\* --- Default: a simple statement ---
statementReturn(mb, astPath) ==
  [w |-> Traced(mb.w, "statement", mb.block.id, astPath, <<>>,
                Some([entry |-> mb.block.id, exits |-> <<mb.block.id>>])),
   res |-> Some([entry |-> mb.block.id, exits |-> <<mb.block.id>>])]

buildNode_statement(w, node, astPath, code) ==
  statementReturn(makeBlock(w, summary(node, code, SummaryMax), "statement", node,
                            astPath, <<summary(node, code, SummaryMax)>>),
                  astPath)

buildNode(w, node, astPath, code) ==
  LET structured == IF_TYPES \cup LOOP_TYPES \cup MATCH_TYPES
                      \cup RETURN_TYPES \cup FUNCTION_TYPES
      container == node.kind \notin structured
                   /\ (node.kind \in CONTAINER_TYPES \/ isContainerLike(node))
  IN CASE node.kind \in IF_TYPES -> buildNode_if(w, node, astPath, code)
       [] node.kind \in LOOP_TYPES -> buildNode_loop(w, node, astPath, code)
       [] node.kind \in MATCH_TYPES -> buildNode_match(w, node, astPath, code)
       [] node.kind \in RETURN_TYPES -> buildNode_return(w, node, astPath, code)
       [] node.kind \in FUNCTION_TYPES -> buildNode_function(w, node, astPath, code)
       [] container -> buildChildren(w, node, astPath, code)
       [] node.kind \notin structured /\ ~container
          /\ node.isNamed /\ node.kind # "comment" ->
            buildNode_statement(w, node, astPath, code)
       [] OTHER -> [w |-> w, res |-> None]

\* the indices (0-based, in order) of the named children
childIndices(node) ==
  SelectSeq([i \in 1..Len(node.children) |-> i - 1],
            LAMBDA i : node.children[i + 1].isNamed)

\* if (result) results.push(result); r: the child's world and result
pushResult(acc, r) ==
  [w |-> r.w,
   results |-> IF r.res # None THEN Append(acc.results, r.res[1]) ELSE acc.results]

\* for (const { child, index } of childIndices), from the k-th pair on;
\* acc: the world and the results so far
RECURSIVE buildEach(_, _, _, _, _, _)
buildEach(acc, node, indices, k, astPath, code) ==
  IF k > Len(indices) THEN acc
  ELSE Then(acc,
            buildEach(pushResult(acc,
                                 buildNode(acc.w, node.children[indices[k] + 1],
                                           astPath \o "-" \o ToString(indices[k]),
                                           code)),
                      node, indices, k + 1, astPath, code))

\* "Chain results sequentially": exits of results[i-1] to the entry of results[i]
RECURSIVE chainResults(_, _, _)
\* every result wired from the exits of the first one (a fault C18 excludes)
chainResults_fromFirst(w, results, i) ==
  IF i > Len(results) THEN w
  ELSE chainResults(addEdgesFrom(w, results[1].exits, results[i].entry, Undefined),
                    results, i + 1)

chainResults(w, results, i) ==
  IF i > Len(results) THEN w
  ELSE chainResults(addEdgesFrom(w, results[i - 1].exits, results[i].entry, Undefined),
                    results, i + 1)

\* fin: the world and the results after the loop over the children
childrenReturn(fin, astPath) ==
  IF Len(fin.results) = 0
  THEN [w |-> Traced(fin.w, "children", "", astPath, <<>>, None), res |-> None]
  ELSE [w |-> Traced(chainResults(fin.w, fin.results, 2), "children", "", astPath,
                     [k \in 1..Len(fin.results) |-> Some(fin.results[k])],
                     Some([entry |-> fin.results[1].entry,
                           exits |-> fin.results[Len(fin.results)].exits])),
        res |-> Some([entry |-> fin.results[1].entry,
                      exits |-> fin.results[Len(fin.results)].exits])]

buildChildren(w, node, astPath, code) ==
  IF childIndices(node) = <<>> THEN [w |-> w, res |-> None]
  ELSE childrenReturn(buildEach([w |-> w, results |-> <<>>], node, childIndices(node),
                                1, astPath, code),
                      astPath)

\* the key `${e.from}->${e.to}:${e.label || ''}`: ids hold neither "->" nor ":",
\* so two keys are equal exactly when the three parts are
edgeKey(e) == <<e.from, e.to, IF e.label = Undefined THEN <<>> ELSE e.label>>

\* no filter (a fault C12 excludes)
dedupEdges_all(edges) == edges

\* ctx.edges.filter(first occurrence of each key)
dedupEdges(edges) ==
  LET kept == SelectSeq([i \in 1..Len(edges) |->
                           [e |-> edges[i],
                            keep |-> \A j \in 1..(i - 1) :
                                       edgeKey(edges[j]) # edgeKey(edges[i])]],
                        LAMBDA x : x.keep)
  IN Array([i \in 1..Len(kept) |-> kept[i].e])

\* no reset: the counter goes on from the last build (a fault C3 excludes)
resetBlockId_keep(n) == n

\* "Reset block ID counter"
resetBlockId(n) == 0

\* the synthetic entry left where it was made, at the end (a fault C10 excludes)
addSentinel_atEnd(w, ast, result) ==
  addEdge(makeBlock(w, <<"e", "n", "t", "r", "y">>, "entry", ast, "root",
                    <<<<"e", "n", "t", "r", "y">>>>).w,
          makeBlock(w, <<"e", "n", "t", "r", "y">>, "entry", ast, "root",
                    <<<<"e", "n", "t", "r", "y">>>>).block.id,
          result.entry, Undefined)

\* the synthetic entry: made last, wired to the root's entry, moved to the front
addSentinel(w, ast, result) ==
  LET mb == makeBlock(w, <<"e", "n", "t", "r", "y">>, "entry", ast, "root",
                      <<<<"e", "n", "t", "r", "y">>>>)
      w1 == addEdge(mb.w, mb.block.id, result.entry, Undefined)
  IN [w1 EXCEPT !.blocks = <<mb.block>> \o SubSeq(@, 1, Len(@) - 1)]

\* some(b => b.kind !== 'entry') (a fault C4 excludes)
hasEntry_other(blocks) == \E i \in 1..Len(blocks) : blocks[i].kind # "entry"

hasEntry(blocks) == \E i \in 1..Len(blocks) : blocks[i].kind = "entry"

\* w: the world at the return statement; built: the edges before deduplication
cfgReturn(w, result) ==
  [cfg |-> [blocks |-> w.blocks, edges |-> dedupEdges(w.edges)],
   nextBlockId |-> w.nextBlockId,
   trace |-> w.trace,
   result |-> result,
   built |-> w.edges]

\* b: the world and the result after "Build from root"
cfgSentinel(b, ast) ==
  cfgReturn(IF b.res # None /\ Len(b.w.blocks) > 0 /\ ~hasEntry(b.w.blocks)
            THEN addSentinel(b.w, ast, b.res[1])
            ELSE b.w,
            b.res)

\* buildCfg(ast, code) called when the module-level counter holds n:
\* the Cfg returned, the counter afterwards, and the history of the calls
buildCfg(ast, code, n) ==
  cfgSentinel(buildChildren([blocks |-> <<>>, edges |-> <<>>, code |-> code,
                             nextBlockId |-> resetBlockId(n), trace |-> <<>>],
                            ast, "root", code),
              ast)

\* ------------------------------------------------------------------------
\* Layout (components/CfgView.tsx).  Lengths are in pixels, except x, which
\* is in half pixels: -totalW / 2 is a multiple of one half.
\* ------------------------------------------------------------------------
BLOCK_PADDING_X == 16
BLOCK_PADDING_Y == 10
BLOCK_MIN_W == 100
BLOCK_MAX_W == 280
BLOCK_GAP_X == 60
BLOCK_GAP_Y == 56
lineH == 16

RECURSIVE SumSeq(_)
SumSeq(s) == IF s = <<>> THEN 0 ELSE Head(s) + SumSeq(Tail(s))

\* the elements of a set of numbers in increasing order
SortedSeq(S) ==
  Array([k \in 1..Cardinality(S) |->
           CHOOSE x \in S : Cardinality({y \in S : y < x}) = k - 1])

\* the width the canvas reports for a text: fw[font] is the advance width of
\* one character of the (monospace) font
measureText(text, font, fw) == Len(text) * fw[font]

\* the width without the lower clamp (a fault C7 excludes)
getBlockDimensions_noMin(block, fw) ==
  LET labelW == measureText(block.label, "BLOCK_FONT", fw)
      stmtWidths == {measureText(block.statements[i], "BLOCK_FONT_SMALL", fw) :
                       i \in 1..Len(block.statements)}
      maxTextW == MaxOf({labelW} \cup stmtWidths)
      stmtH == IF Len(block.statements) > 0 THEN Len(block.statements) * lineH + 4 ELSE 0
  IN [width |-> MinOf({BLOCK_MAX_W, maxTextW + BLOCK_PADDING_X * 2}),
      height |-> BLOCK_PADDING_Y * 2 + 14 + stmtH]

getBlockDimensions(block, fw) ==
  LET labelW == measureText(block.label, "BLOCK_FONT", fw)
      stmtWidths == {measureText(block.statements[i], "BLOCK_FONT_SMALL", fw) :
                       i \in 1..Len(block.statements)}
      maxTextW == MaxOf({labelW} \cup stmtWidths)
      stmtH == IF Len(block.statements) > 0 THEN Len(block.statements) * lineH + 4 ELSE 0
  IN [width |-> MinOf({BLOCK_MAX_W, MaxOf({BLOCK_MIN_W, maxTextW + BLOCK_PADDING_X * 2})}),
      height |-> BLOCK_PADDING_Y * 2 + 14 + stmtH]

blockIds(cfg) == {cfg.blocks[i].id : i \in 1..Len(cfg.blocks)}

\* "Build adjacency": the predecessor lists, in edge order, over the edges
\* whose two ends are ids of blocks (the successor lists are built and never read)
\* the test without successors.has(e.from) (a fault C14 excludes)
edgesInto_anyFrom(cfg, id) == SelectSeq(cfg.edges, LAMBDA e : e.to = id)

edgesInto(cfg, id) ==
  SelectSeq(cfg.edges, LAMBDA e : e.from \in blockIds(cfg) /\ e.to = id)

predecessors(cfg) ==
  [id \in blockIds(cfg) |->
     Array([k \in 1..Len(edgesInto(cfg, id)) |-> edgesInto(cfg, id)[k].from])]

\* l = maxPredLayer, without the + 1 (a fault C9 excludes)
setLayer_noInc(id, acc) ==
  [st |-> [acc.st EXCEPT !.layer = (id :> acc.l) @@ @], l |-> acc.l]

\* layer.set(id, l) after the loop over the predecessors; acc: the maps and
\* maxPredLayer
setLayer(id, acc) ==
  [st |-> [acc.st EXCEPT !.layer = (id :> (acc.l + 1)) @@ @], l |-> acc.l + 1]

\* maxPredLayer = assignLayer(p), without the maximum (a fault C19 excludes)
maxPredLayer_last(acc, r) == [st |-> r.st, l |-> r.l]

\* maxPredLayer = Math.max(maxPredLayer, assignLayer(p)); r: what the call returned
maxPredLayer(acc, r) == [st |-> r.st, l |-> MaxOf({acc.l, r.l})]

\* predecessors.get(id) || []
predsOf(P, id) == IF id \in DOMAIN P THEN P[id] ELSE <<>>

\* the memo test always false (a fault C21 excludes)
hasLayer_never(st, id) == FALSE

\* layer.has(id)
hasLayer(st, id) == id \in DOMAIN st.layer

\* the history entry of one assignLayer call: the maps as the call found
\* them, whether it went on to resolve the block, and what it returned at once
Called(st, id, resolves, l) ==
  [st EXCEPT !.log = Append(@, [id |-> id, resolves |-> resolves, l |-> l,
                                visited |-> st.visited, layered |-> DOMAIN st.layer])]

\* st = [layer, visited, log]: the two maps assignLayer closes over, and the
\* history of its calls
RECURSIVE assignLayer(_, _, _)
RECURSIVE predLoop(_, _, _, _)
predLoop(acc, preds, k, P) ==
  IF k > Len(preds) THEN acc
  ELSE Then(acc, predLoop(maxPredLayer(acc, assignLayer(acc.st, preds[k], P)),
                          preds, k + 1, P))

assignLayer(st, id, P) ==
  IF hasLayer(st, id) THEN [st |-> Called(st, id, FALSE, st.layer[id]), l |-> st.layer[id]]
  ELSE IF id \in st.visited THEN [st |-> Called(st, id, FALSE, 0), l |-> 0]
  ELSE setLayer(id, predLoop([st |-> [Called(st, id, TRUE, -1)
                                        EXCEPT !.visited = @ \cup {id}],
                              l |-> -1],
                             predsOf(P, id), 1, P))

\* for (const b of cfg.blocks) assignLayer(b.id)
RECURSIVE assignLayers(_, _, _, _)
assignLayers(st, blocks, k, P) ==
  IF k > Len(blocks) THEN st
  ELSE Then(st, assignLayers(assignLayer(st, blocks[k].id, P).st, blocks, k + 1, P))

\* "Group blocks by layer", the groups in the order of sortedLayerKeys
sortedLayerKeys(blocks, layer) ==
  SortedSeq({layer[blocks[i].id] : i \in 1..Len(blocks)})

groupByLayer(blocks, layer, keys) ==
  Array([k \in 1..Len(keys) |-> SelectSeq(blocks, LAMBDA b : layer[b.id] = keys[k])])

\* prevPos.get(p) ?? 0
prevPos(prevBlocks, p) ==
  LET at == {i \in 1..Len(prevBlocks) : prevBlocks[i].id = p}
  IN IF at = {} THEN 0 ELSE MaxOf(at) - 1

\* the average position of the predecessors, as a fraction sum / n with n > 0
avgPos(b, prevBlocks, P) ==
  IF Len(P[b.id]) > 0
  THEN [sum |-> SumSeq(Array([k \in 1..Len(P[b.id]) |-> prevPos(prevBlocks, P[b.id][k])])),
        n |-> Len(P[b.id])]
  ELSE [sum |-> 0, n |-> 1]

\* aAvg - bAvg < 0
avgLess(a, b) == a.sum * b.n < b.sum * a.n

\* blocks.sort((a, b) => aAvg - bAvg): Array.prototype.sort is stable
sortLayer(blocks, prevBlocks, P) ==
  LET avg == Array([i \in 1..Len(blocks) |-> avgPos(blocks[i], prevBlocks, P)])
      before(i) == Cardinality({j \in 1..Len(blocks) :
                                  \/ avgLess(avg[j], avg[i])
                                  \/ ~avgLess(avg[i], avg[j]) /\ j < i})
  IN Array([k \in 1..Len(blocks) |->
              blocks[CHOOSE i \in 1..Len(blocks) : before(i) = k - 1]])

\* for (let li = 1; li < sortedLayerKeys.length; li++): each layer is sorted
\* against the layer before it as that one was left
RECURSIVE sortLayers(_, _, _)
sortLayers(layers, li, P) ==
  IF li >= Len(layers) THEN layers
  ELSE sortLayers([layers EXCEPT ![li + 1] = sortLayer(@, layers[li], P)], li + 1, P)

\* the LayoutBlocks of one layer
placeLayer(blocks, dims, layerKey, currentY) ==
  LET totalW == SumSeq(Array([i \in 1..Len(dims) |-> dims[i].width]))
                + (Len(blocks) - 1) * BLOCK_GAP_X
  IN Array([i \in 1..Len(blocks) |->
              [block |-> blocks[i],
               x |-> -totalW
                     + 2 * SumSeq(Array([j \in 1..(i - 1) |-> dims[j].width + BLOCK_GAP_X])),
               y |-> currentY,
               width |-> dims[i].width,
               height |-> dims[i].height,
               column |-> i - 1,
               row |-> layerKey]])

layerDims(blocks, fw) ==
  Array([i \in 1..Len(blocks) |-> getBlockDimensions(blocks[i], fw)])

maxH(dims) == MaxOf({dims[i].height : i \in 1..Len(dims)})

\* "Position blocks"
RECURSIVE placeLayers(_, _, _, _, _, _)
placeLayers(layoutBlocks, layers, keys, k, currentY, fw) ==
  IF k > Len(keys) THEN layoutBlocks
  ELSE placeLayers(layoutBlocks
                     \o placeLayer(layers[k], layerDims(layers[k], fw), keys[k], currentY),
                   layers, keys, k + 1,
                   currentY + maxH(layerDims(layers[k], fw)) + BLOCK_GAP_Y, fw)

\* "Normalize so minimum x is 0"
normalizeX(layoutBlocks) ==
  LET minX == MinOf({layoutBlocks[i].x : i \in 1..Len(layoutBlocks)})
  IN IF minX < 0
     THEN Array([i \in 1..Len(layoutBlocks) |-> [layoutBlocks[i] EXCEPT !.x = @ - minX]])
     ELSE layoutBlocks

\* layer: the layer map after the loop over the blocks
layoutLayers(cfg, layer, P, fw) ==
  normalizeX(placeLayers(<<>>,
                         sortLayers(groupByLayer(cfg.blocks, layer,
                                                 sortedLayerKeys(cfg.blocks, layer)),
                                    1, P),
                         sortedLayerKeys(cfg.blocks, layer), 1, 0, fw))

\* the maps and the history after "for (const b of cfg.blocks) assignLayer(b.id)"
layering(cfg) ==
  assignLayers([layer |-> <<>>, visited |-> {}, log |-> <<>>], cfg.blocks, 1,
               predecessors(cfg))

layoutCfg(cfg, fw) ==
  IF Len(cfg.blocks) = 0 THEN <<>>
  ELSE layoutLayers(cfg, layering(cfg).layer, predecessors(cfg), fw)

\* blockMap.get(id): the last LayoutBlock of that id, if any
blockMap(layoutBlocks, id) ==
  LET at == {i \in 1..Len(layoutBlocks) : layoutBlocks[i].block.id = id}
  IN IF at = {} THEN None ELSE Some(layoutBlocks[MaxOf(at)])

\* toLb.row < fromLb.row (a fault C8 excludes)
isBackEdge_strict(fromLb, toLb) == toLb.row < fromLb.row

\* toLb.row <= fromLb.row
isBackEdge(fromLb, toLb) == toLb.row <= fromLb.row

\* the set of keys `${e.from}->${e.to}`
backEdgeKeys(edges, layoutBlocks) ==
  {edges[i].from \o "->" \o edges[i].to :
     i \in {j \in 1..Len(edges) :
              /\ blockMap(layoutBlocks, edges[j].from) # None
              /\ blockMap(layoutBlocks, edges[j].to) # None
              /\ isBackEdge(blockMap(layoutBlocks, edges[j].from)[1],
                            blockMap(layoutBlocks, edges[j].to)[1])}}

\* ------------------------------------------------------------------------
\* Inputs: syntax trees and source texts
\* ------------------------------------------------------------------------
Node(kind, isNamed, start, end, children) ==
  [kind |-> kind, start |-> start, end |-> end,
   startPosition |-> [row |-> 0, column |-> start],
   endPosition |-> [row |-> 0, column |-> end],
   isNamed |-> isNamed, children |-> children]

\* "f (c) x" / "y;" : a function name, a condition, a statement whose text
\* starts with a blank and spans a line break, and a second line
SourceText == <<"f", " ", "(", "c", ")", " ", "x", "\n", "y", ";">>
Codes == {SourceText, <<>>}

Tok == Node("{", FALSE, 0, 1, <<>>)
Leaf == Node("identifier", TRUE, 5, 9, <<>>)
Ret(kind) == Node(kind, TRUE, 8, 10, <<>>)
Comment == Node("comment", TRUE, 0, 10, <<>>)
Cond == Node("parenthesized_expression", TRUE, 2, 5, <<>>)
FnName == Node("identifier", TRUE, 0, 1, <<>>)
Params == Node("formal_parameters", TRUE, 2, 5, <<>>)
Block(stmts) == Node("statement_block", TRUE, 0, 10, <<Tok>> \o stmts \o <<Tok>>)
Else(stmts) == Node("else_clause", TRUE, 0, 10, <<Tok>> \o stmts)
If(body, else) == Node("if_statement", TRUE, 0, 10, <<Tok, Cond>> \o body \o else)
Loop(kind, body) == Node(kind, TRUE, 0, 10, <<Tok, Cond>> \o body)
Case(stmts) == Node("switch_case", TRUE, 0, 10, <<Tok, Leaf, Tok>> \o stmts)
Default(stmts) == Node("switch_default", TRUE, 0, 10, <<Tok, Tok>> \o stmts)
Switch(arms) ==
  Node("switch_statement", TRUE, 0, 10,
       <<Tok, Cond, Node("switch_body", TRUE, 0, 10, <<Tok>> \o arms \o <<Tok>>)>>)
Func(body) == Node("function_declaration", TRUE, 0, 10, <<Tok, FnName, Params>> \o body)
Program(stmts) == Node("program", TRUE, 0, 10, stmts)

SeqsUpTo(S, n) == UNION {[1..k -> S] : k \in 0..n}

MaxBody == 1
MaxArms == 2

Return == Ret("return_statement")
Atoms == {Leaf, Return, Comment}
\* a body child: absent, or a block of at most MaxBody simple statements
Bodies == {<<>>} \cup {<<Block(s)>> : s \in SeqsUpTo({Leaf, Return}, MaxBody)}
Elses == {<<>>, <<Else(<<>>)>>} \cup {<<Else(<<Block(<<a>>)>>)>> : a \in {Leaf, Return}}
ArmChoices == {Default(<<>>), Case(<<>>), Case(<<Return>>)}
Ifs == {If(b, e) : b \in Bodies, e \in Elses}
Loops == {Loop("while_statement", b) : b \in Bodies}
Switches == {Switch(a) : a \in SeqsUpTo(ArmChoices, MaxArms)}
Funcs == {Func(b) : b \in Bodies}
Compound1 == Ifs \cup Loops \cup Switches \cup Funcs
\* a compound statement nested in a loop, a function or a branch
Inner ==
  {If(<<Block(<<a>>)>>, e) : a \in {Leaf, Return}, e \in {<<>>, <<Else(<<Block(<<Return>>)>>)>>}}
  \cup {Loop("while_statement", <<Block(<<a>>)>>) : a \in {Leaf, Return}}
  \cup {Switch(<<Case(<<Return>>), Default(<<>>)>>), Switch(<<Case(<<Return>>)>>),
        Func(<<Block(<<Leaf>>)>>), Func(<<Block(<<Return>>)>>)}
Compound2 ==
  UNION {{Loop("for_statement", <<Block(<<s, Leaf>>)>>),
          Func(<<Block(<<s>>)>>),
          If(<<Block(<<s>>)>>, <<Else(<<s>>)>>)} : s \in Inner}
\* a loop followed by a loop: the first with a statement, a break or a loop
\* as its body
Sequels ==
  {Program(<<Loop("while_statement", <<Block(<<b>>)>>),
             Loop("for_statement", <<Block(<<Leaf>>)>>)>>) :
     b \in {Leaf, Ret("break_statement"), Loop("while_statement", <<Block(<<Leaf>>)>>)}}

\* unnamed tokens, a comment, a block that yields nothing, and statements of
\* which one is a terminator and another an if that falls through
Mixed ==
  Program(<<Tok, If(<<>>, <<>>), Comment, Leaf, Block(<<Comment>>), Return, Tok, Leaf>>)

Trees ==
  {Program(<<>>)}
  \cup {Program(<<Ret(k)>>) : k \in RETURN_TYPES}
  \cup UNION {{Program(<<s>>), Program(<<s, Leaf>>), Program(<<Leaf, s>>)} :
              s \in Atoms \cup Compound1}
  \cup {Program(<<s, Leaf>>) : s \in Compound2}
  \cup Sequels
  \cup {Mixed, Program(<<Comment, Block(<<Comment>>)>>)}

\* every tree with its source text; the switches also with an empty text,
\* under which an arm's label can be the empty string
Inputs ==
  {[ast |-> t, code |-> SourceText] : t \in Trees}
  \cup {[ast |-> Program(<<s, Leaf>>), code |-> <<>>] : s \in Switches}

\* the inputs of the runs that compare repeated calls
RepeatInputs == {[ast |-> Program(<<s, Leaf>>), code |-> c] : s \in Inner, c \in Codes}

\* ------------------------------------------------------------------------
\* Inputs of the view: Cfgs and font metrics
\* ------------------------------------------------------------------------
Text(n) == Array([i \in 1..n |-> "x"])

Blk(k, label, statements, kind) ==
  [id |-> "cfg_" \o ToString(k), label |-> label, statements |-> statements,
   start |-> 0, end |-> 0,
   startPosition |-> [row |-> 0, column |-> 0],
   endPosition |-> [row |-> 0, column |-> 0],
   kind |-> kind, astPath |-> "root-" \o ToString(k)]

Edge(i, j) == [from |-> "cfg_" \o ToString(i), to |-> "cfg_" \o ToString(j),
               label |-> Undefined]

MaxEdges == 2

\* three blocks: a short label and no statement, a medium label, and a
\* statement longer than the label
ShapeBlocks ==
  <<Blk(0, Text(3), <<>>, "statement"),
    Blk(1, Text(20), <<Text(5)>>, "branch"),
    Blk(2, Text(8), <<Text(40), Text(2)>>, "loop")>>

PairSeq ==
  <<<<0, 0>>, <<0, 1>>, <<0, 2>>, <<1, 0>>, <<1, 1>>, <<1, 2>>,
    <<2, 0>>, <<2, 1>>, <<2, 2>>>>

\* the edges between the three blocks, at most MaxEdges of them
ShapeEdges ==
  {Array([k \in 1..Len(ps) |-> Edge(ps[k][1], ps[k][2])]) :
     ps \in {SelectSeq(PairSeq, LAMBDA p : p \in S) :
               S \in {T \in SUBSET Range(PairSeq) : Cardinality(T) <= MaxEdges}}}

Reverse(s) == Array([i \in 1..Len(s) |-> s[Len(s) + 1 - i]])

Shapes ==
  {[blocks |-> ShapeBlocks, edges |-> e] : e \in ShapeEdges}
  \cup {[blocks |-> Reverse(ShapeBlocks), edges |-> Reverse(e)] : e \in ShapeEdges}

\* edges to and from an id that no block has, a repeated edge under two labels
Dangling ==
  [blocks |-> ShapeBlocks,
   edges |-> <<Edge(0, 9), Edge(9, 1), Edge(0, 1),
               [from |-> "cfg_0", to |-> "cfg_1", label |-> <<"t", "r", "u", "e">>],
               Edge(9, 9)>>]

\* a block listed twice
Twice ==
  [blocks |-> <<ShapeBlocks[1], ShapeBlocks[2], ShapeBlocks[1]>>,
   edges |-> <<Edge(0, 1)>>]

\* three layers, the third reordered by the positions of its predecessors;
\* a cycle of three blocks behind it; a self-loop; a block on its own
Crossed ==
  [blocks |-> <<Blk(0, Text(3), <<Text(3)>>, "entry"),
                Blk(1, Text(3), <<Text(3)>>, "statement"),
                Blk(2, Text(3), <<Text(3)>>, "statement"),
                Blk(3, Text(3), <<Text(3)>>, "statement"),
                Blk(4, Text(3), <<Text(3)>>, "statement"),
                Blk(5, Text(3), <<Text(3)>>, "loop"),
                Blk(6, Text(3), <<Text(3)>>, "statement"),
                Blk(7, Text(3), <<Text(3)>>, "statement"),
                Blk(8, Text(3), <<Text(3)>>, "exit")>>,
   edges |-> <<Edge(0, 1), Edge(0, 2), Edge(2, 3), Edge(1, 4),
               Edge(4, 5), Edge(7, 5), Edge(5, 6), Edge(6, 7), Edge(3, 3)>>]

\* a chain cfg_0 .. cfg_3 whose block cfg_1 was removed and whose edges stayed
Stale ==
  [blocks |-> <<Blk(0, Text(3), <<Text(3)>>, "entry"),
                Blk(2, Text(3), <<Text(3)>>, "statement"),
                Blk(3, Text(3), <<Text(3)>>, "statement")>>,
   edges |-> <<Edge(0, 1), Edge(1, 2), Edge(2, 3)>>]

\* an acyclic Cfg with paths of several lengths into one block, its blocks
\* listed from the last to the first
Diamond ==
  [blocks |-> <<Blk(4, Text(3), <<Text(3)>>, "exit"),
                Blk(3, Text(3), <<Text(3)>>, "statement"),
                Blk(2, Text(3), <<Text(3)>>, "statement"),
                Blk(1, Text(3), <<Text(3)>>, "branch"),
                Blk(0, Text(3), <<Text(3)>>, "entry")>>,
   edges |-> <<Edge(0, 1), Edge(0, 2), Edge(1, 3), Edge(2, 3), Edge(0, 3),
               Edge(3, 4), Edge(1, 4), Edge(0, 9)>>]

\* all blocks removed, an edge left
Orphaned == [blocks |-> <<>>, edges |-> <<Edge(0, 1)>>]

\* two blocks, each the only predecessor of the other
Ring ==
  [blocks |-> <<Blk(0, Text(3), <<Text(3)>>, "loop"),
                Blk(1, Text(3), <<Text(3)>>, "statement")>>,
   edges |-> <<Edge(0, 1), Edge(1, 0)>>]

Built == {buildCfg(Program(<<s, Leaf>>), SourceText, 0).cfg : s \in Inner}

\* what buildCfg returns for a loop whose body is a function without a body
LoopOfFunction ==
  buildCfg(Program(<<Loop("while_statement", <<Block(<<Func(<<>>)>>)>>)>>), SourceText, 0).cfg

ViewCfgs ==
  Shapes \cup {Dangling, Twice, Crossed, Stale, Diamond, Orphaned, [blocks |-> <<>>, edges |-> <<>>]}
  \cup {Ring, LoopOfFunction}
  \cup Built

\* advance widths of one character in the two fonts
Metrics ==
  {[BLOCK_FONT |-> 7, BLOCK_FONT_SMALL |-> 6],
   [BLOCK_FONT |-> 8, BLOCK_FONT_SMALL |-> 7]}

\* ------------------------------------------------------------------------
\* State
\* ------------------------------------------------------------------------
VARIABLES
  nextBlockId,  \* the module-level counter of lib/cfg
  astIn, codeIn,    \* the arguments of the last buildCfg call
  cfg,          \* the Cfg it returned; in the view, the cfg prop
  trace,        \* the history of that call's buildNode/buildChildren calls
  ctxEdges,     \* ctx.edges of that call as they were before the deduplication
  first,        \* None, or the first call of the run: its arguments and result
  measureCtx,   \* None, or the canvas context: its font metrics
  layoutBlocks, \* the memoized layoutCfg(cfg)
  backEdges,    \* the memoized back-edge set
  builds        \* of each buildCfg call in progress at once: its tree and the
                \* ids makeId has handed to it so far

vars ==
  <<nextBlockId, astIn, codeIn, cfg, trace, ctxEdges, first, measureCtx, layoutBlocks,
    backEdges, builds>>

view == <<measureCtx, layoutBlocks, backEdges>>

EmptyCfg == [blocks |-> <<>>, edges |-> <<>>]

\* the callers of buildCfg whose calls may overlap
Builders == {"a", "b"}

Init ==
  /\ nextBlockId = 0
  /\ astIn = Program(<<>>)
  /\ codeIn = <<>>
  /\ cfg = EmptyCfg
  /\ trace = <<>>
  /\ ctxEdges = <<>>
  /\ first = None
  /\ measureCtx = None
  /\ layoutBlocks = <<>>
  /\ backEdges = {}
  /\ builds = [p \in Builders |-> [pc |-> "idle", ast |-> Program(<<>>), ids |-> <<>>]]

\* r: what the call returned and did
Returned(a, c, r) ==
  /\ astIn' = a
  /\ codeIn' = c
  /\ cfg' = r.cfg
  /\ nextBlockId' = r.nextBlockId
  /\ trace' = r.trace
  /\ ctxEdges' = r.built

BuildCfgCall(a, c) == Returned(a, c, buildCfg(a, c, nextBlockId))

Build ==
  \E inp \in Inputs : BuildCfgCall(inp.ast, inp.code) /\ UNCHANGED <<first, view, builds>>

Next == Build

Spec == Init /\ [][Next]_vars

\* Runs that remember their first call, and whether a call with other
\* arguments followed it
Remember(a, c) ==
  first' = IF first = None
           THEN Some([ast |-> a, code |-> c, cfg |-> cfg', other |-> FALSE])
           ELSE Some([first[1] EXCEPT !.other = @ \/ first[1].ast # a \/ first[1].code # c])

BuildAgain ==
  \E inp \in RepeatInputs :
    /\ BuildCfgCall(inp.ast, inp.code)
    /\ Remember(inp.ast, inp.code)
    /\ UNCHANGED <<view, builds>>

NextRepeat == BuildAgain

SpecRepeat == Init /\ [][NextRepeat]_vars

\* The view rendered with a cfg prop: the layout and the back-edge set are
\* recomputed; the canvas context is made by the first measureText call
Laid(c, lbs) ==
  /\ cfg' = c
  /\ layoutBlocks' = lbs
  /\ backEdges' = backEdgeKeys(c.edges, lbs)

Render(c, fw) ==
  /\ Laid(c, layoutCfg(c, fw))
  /\ measureCtx' = IF Len(c.blocks) = 0 THEN measureCtx ELSE Some(fw)
  /\ UNCHANGED <<nextBlockId, astIn, codeIn, trace, ctxEdges, first, builds>>

RenderCfg ==
  \E c \in ViewCfgs :
    \E fw \in (IF measureCtx = None THEN Metrics ELSE {measureCtx[1]}) : Render(c, fw)

NextView == RenderCfg

SpecView == Init /\ [][NextView]_vars

\* Calls of buildCfg that overlap.  All of them read and write the one
\* module-level counter: a call resets it when it starts and every makeBlock
\* of a call draws its id from it.  A call is followed through its makeId
\* calls, the only places where it touches the counter; the number of blocks
\* a tree makes does not depend on the ids.
OverlapTrees ==
  {Program(<<Leaf>>), Program(<<Leaf, Return>>),
   Program(<<If(<<Block(<<Leaf>>)>>, <<>>), Leaf>>)}

\* the number of makeBlock calls of buildCfg(t, code)
BlocksMade(t) == Len(buildCfg(t, SourceText, 0).cfg.blocks)

\* "nextBlockId = 0" at the start of a call
StartBuild(p) ==
  /\ builds[p].pc = "idle"
  /\ \E t \in OverlapTrees :
       builds' = [builds EXCEPT ![p] = [pc |-> "building", ast |-> t, ids |-> <<>>]]
  /\ nextBlockId' = resetBlockId(nextBlockId)
  /\ UNCHANGED <<astIn, codeIn, cfg, trace, ctxEdges, first, view>>

\* m: what makeId returned
TakeId(p, m) ==
  /\ builds' = [builds EXCEPT ![p].ids = Append(@, m.id)]
  /\ nextBlockId' = m.w.nextBlockId

\* the next makeBlock of the call
StepBuild(p) ==
  /\ builds[p].pc = "building"
  /\ Len(builds[p].ids) < BlocksMade(builds[p].ast)
  /\ TakeId(p, makeId([nextBlockId |-> nextBlockId]))
  /\ UNCHANGED <<astIn, codeIn, cfg, trace, ctxEdges, first, view>>

\* the call returns its Cfg
EndBuild(p) ==
  /\ builds[p].pc = "building"
  /\ Len(builds[p].ids) = BlocksMade(builds[p].ast)
  /\ builds' = [builds EXCEPT ![p].pc = "done"]
  /\ UNCHANGED <<nextBlockId, astIn, codeIn, cfg, trace, ctxEdges, first, view>>

NextShared == \E p \in Builders : StartBuild(p) \/ StepBuild(p) \/ EndBuild(p)

SpecShared == Init /\ [][NextShared]_vars

\* ------------------------------------------------------------------------
\* Properties of the Cfg returned by buildCfg
\* ------------------------------------------------------------------------
\* the synthetic entry block: the only block made with the path of the root
IsSynthetic(b) == b.kind = "entry" /\ b.astPath = "root"

HasSynthetic == Len(cfg.blocks) > 0 /\ IsSynthetic(cfg.blocks[1])

BlocksOfKind(kind) == {i \in 1..Len(cfg.blocks) : cfg.blocks[i].kind = kind}

\* the calls of the last build that made a block, in the order they returned
Made == SelectSeq(trace, LAMBDA t : t.op # "children")

EdgesFrom(id) == SelectSeq(cfg.edges, LAMBDA e : e.from = id)

BlocksOfId(id) == {j \in 1..Len(cfg.blocks) : cfg.blocks[j].id = id}

\* the nodes of the last build that took the given case of buildNode
CallsOf(op) == {k \in 1..Len(trace) : trace[k].op = op}

\* C1: every edge of the returned Cfg has its from and its to among the ids
\* of the Cfg's blocks, also after the synthetic entry was moved to the front
\* and after the edges were deduplicated.
C1_EdgesReferenceBlocks ==
  \A i \in 1..Len(cfg.edges) :
    /\ cfg.edges[i].from \in blockIds(cfg)
    /\ cfg.edges[i].to \in blockIds(cfg)

\* a Cfg whose synthetic entry was moved to the front and whose edge list lost
\* a repeated edge
C1_Witness ==
  /\ HasSynthetic
  /\ Len(cfg.edges) > 0
  /\ Len(ctxEdges) > Len(cfg.edges)

\* C2: no two blocks of a returned Cfg share an id, and a Cfg of n blocks
\* holds exactly cfg_0 .. cfg_(n-1), in the order of construction except that
\* a synthetic entry, which has the highest id, is at index 0.
C2_IdsSequential ==
  /\ \A i, j \in 1..Len(cfg.blocks) : i # j => cfg.blocks[i].id # cfg.blocks[j].id
  /\ blockIds(cfg) = {"cfg_" \o ToString(k) : k \in 0..(Len(cfg.blocks) - 1)}
  /\ \A i \in 1..Len(cfg.blocks) :
       cfg.blocks[i].id =
         "cfg_" \o ToString(IF HasSynthetic
                            THEN (IF i = 1 THEN Len(cfg.blocks) - 1 ELSE i - 2)
                            ELSE i - 1)

\* a Cfg of at least three blocks led by the synthetic entry
C2_Witness == HasSynthetic /\ Len(cfg.blocks) >= 3

\* C3: a call with the arguments of the run's first call returns the Cfg the
\* first call returned (the same blocks in the same order, the same edge
\* list), whatever was built in between.
C3_Deterministic ==
  (first # None /\ first[1].ast = astIn /\ first[1].code = codeIn)
    => cfg = first[1].cfg

\* the first call's arguments built again after a build of other arguments
C3_Witness ==
  /\ first # None
  /\ first[1].other
  /\ first[1].ast = astIn /\ first[1].code = codeIn
  /\ Len(cfg.blocks) >= 3

\* the tree's only node that makes a block is one terminator statement
SingleTerminator == Len(Made) = 1 /\ Made[1].op = "return"

\* C4 as stated: a tree of a single terminator node gives exactly one
\* return block and no edge.
C4_Original ==
  SingleTerminator =>
    /\ Cardinality(BlocksOfKind("return")) = 1
    /\ Len(cfg.edges) = 0

\* C4 (amended): a tree of a single terminator node gives exactly one return
\* block, behind the synthetic entry, and exactly one edge: the unlabeled
\* edge from the synthetic entry to the return block; no edge leaves the
\* return block.
C4_SingleTerminator ==
  SingleTerminator =>
    /\ Cardinality(BlocksOfKind("return")) = 1
    /\ Len(cfg.blocks) = 2
    /\ HasSynthetic
    /\ cfg.blocks[2].kind = "return"
    /\ cfg.blocks[2].id = Made[1].block
    /\ cfg.edges = <<[from |-> cfg.blocks[1].id, to |-> cfg.blocks[2].id,
                      label |-> Undefined]>>
    /\ EdgesFrom(cfg.blocks[2].id) = <<>>

\* a build of a tree of one terminator statement other than a return
C4_Witness ==
  /\ SingleTerminator
  /\ astIn.children[1].kind = "throw_statement"
  /\ Len(cfg.blocks) > 0

\* the if nodes of the last build whose true body and else clause both made blocks
BothBranches == {k \in 1..Len(trace) : /\ trace[k].op = "if"
                                       /\ trace[k].parts[1] # None
                                       /\ trace[k].parts[2] # None}

\* C5: an if node whose true body and else clause both make blocks has
\* exactly one branch block (each if node has one); exactly two edges leave it, "true" to the entry
\* of the true body and "false" to the entry of the else body; its exits are
\* the exits of the two bodies, and the branch block is not one of them.
C5_BranchBoth ==
  \A k \in BothBranches :
    /\ Cardinality(BlocksOfKind("branch")) = Cardinality(CallsOf("if"))
    /\ Cardinality(BlocksOfId(trace[k].block)) = 1
    /\ \A j \in BlocksOfId(trace[k].block) :
         cfg.blocks[j].kind = "branch" /\ cfg.blocks[j].astPath = trace[k].path
    /\ EdgesFrom(trace[k].block) =
         <<[from |-> trace[k].block, to |-> trace[k].parts[1][1].entry,
            label |-> <<"t", "r", "u", "e">>],
           [from |-> trace[k].block, to |-> trace[k].parts[2][1].entry,
            label |-> <<"f", "a", "l", "s", "e">>]>>
    /\ Range(trace[k].res[1].exits) =
         Range(trace[k].parts[1][1].exits) \cup Range(trace[k].parts[2][1].exits)
    /\ trace[k].block \notin Range(trace[k].res[1].exits)

\* such an if node, with an exit on each side, followed by a statement
C5_Witness ==
  \E k \in BothBranches :
    /\ trace[k].parts[1][1].exits # <<>>
    /\ trace[k].parts[2][1].exits # <<>>
    /\ \E i \in 1..Len(cfg.edges) : cfg.edges[i].from \in Range(trace[k].res[1].exits)

\* the loop nodes of the last build whose body made blocks
LoopsWithBody == {k \in 1..Len(trace) : trace[k].op = "loop" /\ trace[k].parts[1] # None}

\* C6: a loop node whose body makes blocks has exactly one loop block
\* (each loop node has one), one
\* "body" edge from it to the entry of the body, and one "next" edge from
\* each exit of the body back to it (and no other "next" edge into it).
C6_LoopBody ==
  \A k \in LoopsWithBody :
    /\ Cardinality(BlocksOfKind("loop")) = Cardinality(CallsOf("loop"))
    /\ Cardinality(BlocksOfId(trace[k].block)) = 1
    /\ \A j \in BlocksOfId(trace[k].block) :
         cfg.blocks[j].kind = "loop" /\ cfg.blocks[j].astPath = trace[k].path
    /\ SelectSeq(cfg.edges, LAMBDA e : e.from = trace[k].block
                                       /\ e.label = <<"b", "o", "d", "y">>)
         = <<[from |-> trace[k].block, to |-> trace[k].parts[1][1].entry,
              label |-> <<"b", "o", "d", "y">>]>>
    /\ \A ex \in Range(trace[k].parts[1][1].exits) :
         Cardinality({i \in 1..Len(cfg.edges) :
                        cfg.edges[i] = [from |-> ex, to |-> trace[k].block,
                                        label |-> <<"n", "e", "x", "t">>]}) = 1
    /\ \A i \in 1..Len(cfg.edges) :
         (cfg.edges[i].to = trace[k].block /\ cfg.edges[i].label = <<"n", "e", "x", "t">>)
           => cfg.edges[i].from \in Range(trace[k].parts[1][1].exits)

\* a loop whose body is one leaf statement: that statement is the body's
\* entry and its only exit
C6_Witness ==
  \E k \in LoopsWithBody :
    /\ trace[k].parts[1][1].exits = <<trace[k].parts[1][1].entry>>
    /\ \E i \in BlocksOfKind("statement") :
         cfg.blocks[i].id = trace[k].parts[1][1].entry

\* the entry blocks that function nodes made
FunctionEntries == {i \in BlocksOfKind("entry") : ~IsSynthetic(cfg.blocks[i])}

\* C10 as stated: the block at index 0 of a non-empty Cfg is an entry block.
C10_Original == Len(cfg.blocks) > 0 => cfg.blocks[1].kind = "entry"

\* C10 (amended): a non-empty Cfg has an entry block.  When no function node
\* made one, the synthetic entry is at index 0 and is the only entry block;
\* when a function node made one, there is no synthetic entry and index 0
\* holds the first block constructed, cfg_0, whatever its kind.
C10_LeadingEntry ==
  Len(cfg.blocks) > 0 =>
    /\ BlocksOfKind("entry") # {}
    /\ FunctionEntries = {} => BlocksOfKind("entry") = {1} /\ HasSynthetic
    /\ FunctionEntries # {} =>
         /\ \A i \in 1..Len(cfg.blocks) : ~IsSynthetic(cfg.blocks[i])
         /\ cfg.blocks[1].id = "cfg_0"

\* a Cfg whose function entry is not its first block
C10_Witness ==
  /\ Len(cfg.blocks) > 0
  /\ FunctionEntries # {}
  /\ cfg.blocks[1].kind = "statement"

\* C11: no edge of a returned Cfg leaves a return block: a terminator is not
\* wired to the statement after it, to a loop block by "next", or to a
\* function's exit block, however deep it is nested.
C11_NoEdgeFromReturn ==
  \A i \in 1..Len(cfg.edges) :
    \A j \in BlocksOfId(cfg.edges[i].from) : cfg.blocks[j].kind # "return"

\* a build in which a nested sequence of statements has a part without exits
\* (it ends in a terminator) followed by another statement, inside a loop
C11_Witness ==
  /\ \E k \in CallsOf("children") :
       /\ trace[k].path # "root"
       /\ \E i \in 1..(Len(trace[k].parts) - 1) : trace[k].parts[i][1].exits = <<>>
  /\ \E k \in LoopsWithBody : trace[k].parts[1][1].exits # <<>>
  /\ BlocksOfKind("return") # {}

\* the indices of ctx.edges that hold the first edge of their triple
FirstOfTriple == {i \in 1..Len(ctxEdges) : \A j \in 1..(i - 1) : ctxEdges[j] # ctxEdges[i]}

\* C12: the edge list of a returned Cfg holds no two edges of the same
\* (from, to, label), an absent label being one value of its own, and is the
\* list of the first occurrences of the triples of ctx.edges, in the order
\* they were added: no triple is lost.
C12_EdgesDeduplicated ==
  /\ \A i, j \in 1..Len(cfg.edges) : i # j => cfg.edges[i] # cfg.edges[j]
  /\ Len(cfg.edges) = Cardinality(FirstOfTriple)
  /\ \A k \in 1..Len(cfg.edges) :
       cfg.edges[k] =
         ctxEdges[CHOOSE i \in FirstOfTriple :
                    Cardinality({j \in FirstOfTriple : j < i}) = k - 1]

\* a build that added an edge a second time and other edges after it
C12_Witness ==
  \E i, j \in 1..Len(ctxEdges) :
    /\ i < j
    /\ i \notin FirstOfTriple
    /\ j \in FirstOfTriple
    /\ Len(cfg.edges) >= 2

\* C13: the ids handed out to one build are not affected by another build
\* that starts or runs while it is in progress: whatever the interleaving,
\* the ids of a build are cfg_0, cfg_1, ... in the order they were handed out,
\* so no id occurs twice in one build.
C13_BuildsIndependent ==
  \A p \in Builders :
    \A i \in 1..Len(builds[p].ids) : builds[p].ids[i] = "cfg_" \o ToString(i - 1)

\* the part of a sequence of statements after which another part comes:
\* the pairs <<call, index>> whose part is the result r
Followed(r) ==
  {<<c, i>> \in CallsOf("children") \X (1..Len(cfg.blocks)) :
     i < Len(trace[c].parts) /\ trace[c].parts[i] = r}

\* C15: an if node one of whose paths is absent or makes no block (no true
\* body, no else clause, or a body or else clause that yields no block) has
\* its branch block among its exits, and a statement that follows the if has
\* an unlabeled edge from the branch block.
C15_FallThrough ==
  \A k \in CallsOf("if") :
    (trace[k].parts[1] = None \/ trace[k].parts[2] = None) =>
      /\ trace[k].block \in Range(trace[k].res[1].exits)
      /\ \A f \in Followed(trace[k].res) :
           \E i \in 1..Len(cfg.edges) :
             cfg.edges[i] = [from |-> trace[k].block,
                             to |-> trace[f[1]].parts[f[2] + 1][1].entry,
                             label |-> Undefined]

\* the arms of a match node that made blocks
ArmsBuilt(k) == {a \in 1..Len(trace[k].parts) : trace[k].parts[a] # None}

\* C16: the exits of a match node are the exits of its arms taken together,
\* and the match block is an exit only when the node has no arms (arms that
\* make no block counted as none): when every arm ends in a terminator the
\* match has no exits and no edge goes from the match block to the statement
\* after the match.
C16_MatchExits ==
  \A k \in CallsOf("match") :
    /\ ArmsBuilt(k) = {} => trace[k].res[1].exits = <<trace[k].block>>
    /\ ArmsBuilt(k) # {} =>
         /\ Range(trace[k].res[1].exits) =
              UNION {Range(trace[k].parts[a][1].exits) : a \in ArmsBuilt(k)}
         /\ \A f \in Followed(trace[k].res) :
              \A i \in 1..Len(cfg.edges) :
                ~(/\ cfg.edges[i].from = trace[k].block
                  /\ cfg.edges[i].to = trace[f[1]].parts[f[2] + 1][1].entry)

\* n of the id cfg_n
IdNum(id) == CHOOSE n \in 0..Len(cfg.blocks) : id = "cfg_" \o ToString(n)

\* the ids of the blocks made for the body of the loop of call k: those made
\* after its loop block and before the call returned
LoopBody(k) ==
  {"cfg_" \o ToString(n) : n \in (IdNum(trace[k].block) + 1)..(trace[k].next - 1)}

\* no block of the body of loop k has an edge out of the loop, but for the
\* "next" edges to the loop block
BodyStaysInside(k) ==
  \A i \in 1..Len(cfg.edges) :
    cfg.edges[i].from \in LoopBody(k) =>
      \/ cfg.edges[i].to \in LoopBody(k)
      \/ cfg.edges[i].to = trace[k].block /\ cfg.edges[i].label = <<"n", "e", "x", "t">>

\* the edges into the entry of the part that follows part f[2] of call f[1]
EdgesIntoNext(f) ==
  {i \in 1..Len(cfg.edges) : cfg.edges[i].to = trace[f[1]].parts[f[2] + 1][1].entry}

\* C17 as stated: the only exit of a loop is its loop block; every edge into
\* the entry of the statement after the loop comes from the loop block, and
\* no block of the body has an edge out of the loop but for "next".
C17_Original ==
  \A k \in CallsOf("loop") :
    /\ trace[k].res[1].exits = <<trace[k].block>>
    /\ BodyStaysInside(k)
    /\ \A f \in Followed(trace[k].res) :
         \A i \in EdgesIntoNext(f) : cfg.edges[i].from = trace[k].block

\* C17 (amended): the only exit of a loop is its loop block; every edge into
\* the entry of the statement after the loop comes from the loop block or,
\* when that statement is itself a loop, by "next" from that loop's own body;
\* no block of the body has an edge out of the loop but for "next".
C17_LoopExit ==
  \A k \in CallsOf("loop") :
    /\ trace[k].res[1].exits = <<trace[k].block>>
    /\ BodyStaysInside(k)
    /\ \A f \in Followed(trace[k].res) :
         /\ \E i \in EdgesIntoNext(f) : cfg.edges[i].from = trace[k].block
         /\ \A i \in EdgesIntoNext(f) :
              \/ cfg.edges[i].from = trace[k].block
              \/ \E k2 \in LoopsWithBody :
                   /\ trace[k2].block = cfg.edges[i].to
                   /\ cfg.edges[i].from \in LoopBody(k2)
                   /\ cfg.edges[i].label = <<"n", "e", "x", "t">>

\* a loop with a loop in its body, the inner one followed by a statement,
\* the outer one by another statement
C17_Witness ==
  \E k, k2 \in LoopsWithBody :
    /\ trace[k2].block \in LoopBody(k)
    /\ Followed(trace[k].res) # {}
    /\ Followed(trace[k2].res) # {}
    /\ trace[k2].parts[1][1].exits # <<>>

\* the chaining edges of a sequence of results, from the i-th result on
RECURSIVE ChainOf(_, _)
ChainOf(parts, i) ==
  IF i > Len(parts) THEN <<>>
  ELSE [j \in 1..Len(parts[i - 1][1].exits) |->
          [from |-> parts[i - 1][1].exits[j], to |-> parts[i][1].entry,
           label |-> Undefined]]
       \o ChainOf(parts, i + 1)

\* the counter and the number of edges when the call before call k returned
NextBefore(k) == IF k = 1 THEN 0 ELSE trace[k - 1].next
EdgesBefore(k) == IF k = 1 THEN 0 ELSE trace[k - 1].edges

\* the children of the root that produce a result, by their 0-based indices
RootProducers ==
  SelectSeq([i \in 1..Len(astIn.children) |-> i - 1],
            LAMBDA i : buildNode([blocks |-> <<>>, edges |-> <<>>, code |-> codeIn,
                                  nextBlockId |-> 0, trace |-> <<>>],
                                 astIn.children[i + 1], "root", codeIn).res # None)

\* C18: buildChildren chains the results of the children that produce one,
\* in source order: the edges it adds are the unlabeled edges from every
\* exit of a result to the entry of the next result, and no other; the
\* composite has the entry of the first result and the exits of the last;
\* with no result it returns null and makes no block and no edge.  For the
\* root the results are those of its named, non-comment children that yield
\* blocks, each led by the block made under that child's path.
C18_Chaining ==
  /\ \A k \in CallsOf("children") :
       /\ trace[k].res = None =>
            /\ trace[k].parts = <<>>
            /\ trace[k].next = NextBefore(k)
            /\ trace[k].edges = EdgesBefore(k)
       /\ trace[k].res # None =>
            /\ Len(trace[k].parts) > 0
            /\ \A i \in 1..Len(trace[k].parts) : trace[k].parts[i] # None
            /\ \A i \in 2..Len(trace[k].parts) :
                 IdNum(trace[k].parts[i - 1][1].entry) < IdNum(trace[k].parts[i][1].entry)
            /\ SubSeq(ctxEdges, EdgesBefore(k) + 1, trace[k].edges)
                 = ChainOf(trace[k].parts, 2)
            /\ trace[k].next = NextBefore(k)
            /\ trace[k].res[1].entry = trace[k].parts[1][1].entry
            /\ trace[k].res[1].exits = trace[k].parts[Len(trace[k].parts)][1].exits
  /\ \A k \in CallsOf("children") :
       trace[k].path = "root" =>
         /\ Len(trace[k].parts) = Len(RootProducers)
         /\ \A i \in 1..Len(RootProducers) :
              /\ astIn.children[RootProducers[i] + 1].isNamed
              /\ astIn.children[RootProducers[i] + 1].kind # "comment"
              /\ \A j \in BlocksOfId(trace[k].parts[i][1].entry) :
                   cfg.blocks[j].astPath = "root-" \o ToString(RootProducers[i])

\* the build of a root with unnamed, comment and null-producing children
\* between its statements, one result with two exits, one with none
C18_Witness ==
  \E k \in CallsOf("children") :
    /\ trace[k].path = "root"
    /\ Len(trace[k].parts) >= 4
    /\ Len(trace[k].parts) < Cardinality({i \in 1..Len(astIn.children) :
                                            astIn.children[i].isNamed}) - 1
    /\ \E i \in 1..(Len(trace[k].parts) - 1) : Len(trace[k].parts[i][1].exits) = 2
    /\ \E i \in 1..(Len(trace[k].parts) - 1) : Len(trace[k].parts[i][1].exits) = 0
    /\ \E c \in CallsOf("children") : trace[c].res = None

\* C23: in every Cfg that buildCfg returns each block of kind exit has an
\* edge into it, also when every path through the body of its function ends
\* in a terminator.
C23_ExitReached ==
  \A j \in 1..Len(cfg.blocks) :
    cfg.blocks[j].kind = "exit" =>
      \E i \in 1..Len(cfg.edges) : cfg.edges[i].to = cfg.blocks[j].id

\* ------------------------------------------------------------------------
\* Properties of the layout
\* ------------------------------------------------------------------------
LaidOut(id) == \E j \in 1..Len(layoutBlocks) : layoutBlocks[j].block.id = id

\* the row of the blocks of an id (blocks of one id share their row)
RowOf(id) ==
  layoutBlocks[CHOOSE j \in 1..Len(layoutBlocks) : layoutBlocks[j].block.id = id].row

\* the closed x-intervals of two LayoutBlocks are apart (x is in half pixels)
Apart(a, b) == a.x + 2 * a.width < b.x \/ b.x + 2 * b.width < a.x

\* C7: of a non-empty Cfg, layoutCfg returns one LayoutBlock per block (none
\* dropped, none repeated), each at least BLOCK_MIN_W wide and of positive
\* height, and no two of one row with overlapping intervals [x, x + width].
C7_LayoutBlocks ==
  Len(cfg.blocks) > 0 =>
    /\ Len(layoutBlocks) = Len(cfg.blocks)
    /\ \A b \in Range(cfg.blocks) :
         Cardinality({j \in 1..Len(layoutBlocks) : layoutBlocks[j].block = b})
           = Cardinality({i \in 1..Len(cfg.blocks) : cfg.blocks[i] = b})
    /\ \A j \in 1..Len(layoutBlocks) :
         layoutBlocks[j].width >= BLOCK_MIN_W /\ layoutBlocks[j].height > 0
    /\ \A i, j \in 1..Len(layoutBlocks) :
         (i # j /\ layoutBlocks[i].row = layoutBlocks[j].row)
           => Apart(layoutBlocks[i], layoutBlocks[j])

\* a layout with a row of two blocks, one of the minimum width and one wider
C7_Witness ==
  \E i, j \in 1..Len(layoutBlocks) :
    /\ layoutBlocks[i].row = layoutBlocks[j].row
    /\ layoutBlocks[i].width = BLOCK_MIN_W
    /\ layoutBlocks[j].width > BLOCK_MIN_W
    /\ layoutBlocks[i].x < layoutBlocks[j].x

\* C8: the key of an edge is in the back-edge set exactly when both its ends
\* are laid-out blocks and the row of its to is at most the row of its from
\* (self-loops included); the set holds nothing but keys of edges.
C8_BackEdges ==
  /\ \A i \in 1..Len(cfg.edges) :
       (cfg.edges[i].from \o "->" \o cfg.edges[i].to) \in backEdges
         <=> /\ LaidOut(cfg.edges[i].from)
             /\ LaidOut(cfg.edges[i].to)
             /\ RowOf(cfg.edges[i].to) <= RowOf(cfg.edges[i].from)
  /\ backEdges \subseteq
       {cfg.edges[i].from \o "->" \o cfg.edges[i].to : i \in 1..Len(cfg.edges)}

\* a Cfg with a self-loop in the set, an edge up a row in the set, and an
\* edge down a row out of it
C8_Witness ==
  /\ \E i \in 1..Len(cfg.edges) :
       /\ cfg.edges[i].from = cfg.edges[i].to
       /\ (cfg.edges[i].from \o "->" \o cfg.edges[i].to) \in backEdges
  /\ \E i \in 1..Len(cfg.edges) :
       /\ cfg.edges[i].from # cfg.edges[i].to
       /\ (cfg.edges[i].from \o "->" \o cfg.edges[i].to) \in backEdges
  /\ \E i \in 1..Len(cfg.edges) :
       /\ LaidOut(cfg.edges[i].from) /\ LaidOut(cfg.edges[i].to)
       /\ (cfg.edges[i].from \o "->" \o cfg.edges[i].to) \notin backEdges

\* the block has a predecessor among the blocks of the Cfg
HasPredecessor(id) ==
  \E i \in 1..Len(cfg.edges) : cfg.edges[i].to = id /\ cfg.edges[i].from \in blockIds(cfg)

\* C9: every block of the Cfg is given a row, a natural number, and the row
\* is 0 exactly when the block has no predecessor among the Cfg's blocks.
C9_Rows ==
  /\ \A i \in 1..Len(cfg.blocks) : LaidOut(cfg.blocks[i].id)
  /\ \A j \in 1..Len(layoutBlocks) :
       /\ layoutBlocks[j].row \in Nat
       /\ layoutBlocks[j].row = 0 <=> ~HasPredecessor(layoutBlocks[j].block.id)

\* a Cfg of two components: a block on its own in row 0, and a cycle
C9_Witness ==
  /\ \E j \in 1..Len(layoutBlocks) :
       /\ layoutBlocks[j].row = 0
       /\ \A i \in 1..Len(cfg.edges) :
            /\ cfg.edges[i].from # layoutBlocks[j].block.id
            /\ cfg.edges[i].to # layoutBlocks[j].block.id
  /\ \E i, k \in 1..Len(cfg.edges) :
       /\ cfg.edges[i].from # cfg.edges[i].to
       /\ cfg.edges[i].from = cfg.edges[k].to
       /\ cfg.edges[i].to = cfg.edges[k].from
       /\ LaidOut(cfg.edges[i].from) /\ LaidOut(cfg.edges[i].to)

\* the edges with an end that is not the id of a block
Malformed ==
  {i \in 1..Len(cfg.edges) :
     cfg.edges[i].from \notin blockIds(cfg) \/ cfg.edges[i].to \notin blockIds(cfg)}

\* the Cfg without its i-th edge
WithoutEdge(i) ==
  [cfg EXCEPT !.edges = SubSeq(@, 1, i - 1) \o SubSeq(@, i + 1, Len(@))]

\* C14: an edge with an end that is not the id of a block changes nothing in
\* the layout (the layout is that of the Cfg without the edge) and its key
\* is not in the back-edge set; a Cfg without blocks lays out to the empty
\* list.
C14_MalformedIgnored ==
  /\ Len(cfg.blocks) = 0 => layoutBlocks = <<>> /\ backEdges = {}
  /\ Len(cfg.blocks) > 0 =>
       \A i \in Malformed :
         /\ layoutBlocks = layoutCfg(WithoutEdge(i), measureCtx[1])
         /\ (cfg.edges[i].from \o "->" \o cfg.edges[i].to) \notin backEdges

\* a laid-out Cfg with an edge from a missing block into a block of row 0,
\* and an edge from a block to a missing one
C14_Witness ==
  /\ \E i \in Malformed :
       /\ cfg.edges[i].from \notin blockIds(cfg)
       /\ LaidOut(cfg.edges[i].to)
       /\ RowOf(cfg.edges[i].to) = 0
  /\ \E i \in Malformed :
       /\ cfg.edges[i].from \in blockIds(cfg)
       /\ cfg.edges[i].to \notin blockIds(cfg)
  /\ Len(layoutBlocks) = Len(cfg.blocks)

\* the edges between blocks of the Cfg
WellFormed == (1..Len(cfg.edges)) \ Malformed

\* what is left of a set of blocks after taking away, again and again, the
\* blocks that no edge from the set enters
RECURSIVE Peel(_)
Peel(S) ==
  LET entered == {cfg.edges[i].to : i \in {j \in WellFormed : cfg.edges[j].from \in S}}
  IN IF S \ entered = {} \/ S = {} THEN S ELSE Peel(S \cap entered)

Acyclic == Peel(blockIds(cfg)) = {}

\* the rows of the predecessors of a block
PredRows(id) == {RowOf(cfg.edges[i].from) : i \in {j \in WellFormed : cfg.edges[j].to = id}}

\* C19: in the layout of an acyclic Cfg the row of a block is 1 + the
\* greatest row of its predecessors, 0 if it has none; so every edge goes to
\* a greater row and the back-edge set is empty.
C19_AcyclicRows ==
  Acyclic =>
    /\ \A j \in 1..Len(layoutBlocks) :
         layoutBlocks[j].row =
           IF PredRows(layoutBlocks[j].block.id) = {} THEN 0
           ELSE 1 + MaxOf(PredRows(layoutBlocks[j].block.id))
    /\ \A i \in WellFormed : RowOf(cfg.edges[i].to) > RowOf(cfg.edges[i].from)
    /\ backEdges = {}

\* an acyclic layout with a block in row 3 and a block whose predecessors are
\* in different rows, the last of them in edge order not the lowest
C19_Witness ==
  /\ Acyclic
  /\ \E j \in 1..Len(layoutBlocks) : layoutBlocks[j].row = 3
  /\ \E i, k \in WellFormed :
       /\ i < k
       /\ cfg.edges[i].to = cfg.edges[k].to
       /\ RowOf(cfg.edges[i].from) > RowOf(cfg.edges[k].from)

\* the kinds of the blocks of an id
KindsOf(id) == {cfg.blocks[j].kind : j \in BlocksOfId(id)}

\* C20: in the layout of a built Cfg with a loop whose body does not
\* terminate, each "next" edge from an exit of the body to the loop block is
\* a back-edge (the row of the loop block is at most the row of the exit),
\* and the "body" edge from the loop block is not: the loop block is above
\* its body.
C20_LoopBackEdges ==
  \A i \in WellFormed :
    /\ (cfg.edges[i].label = <<"n", "e", "x", "t">> /\ KindsOf(cfg.edges[i].to) = {"loop"}) =>
         /\ RowOf(cfg.edges[i].to) <= RowOf(cfg.edges[i].from)
         /\ (cfg.edges[i].from \o "->" \o cfg.edges[i].to) \in backEdges
    /\ (cfg.edges[i].label = <<"b", "o", "d", "y">> /\ KindsOf(cfg.edges[i].from) = {"loop"}) =>
         /\ RowOf(cfg.edges[i].from) < RowOf(cfg.edges[i].to)
         /\ (cfg.edges[i].from \o "->" \o cfg.edges[i].to) \notin backEdges

\* the history of the assignLayer calls made for the layout of the cfg prop
Calls == IF Len(cfg.blocks) = 0 THEN <<>> ELSE layering(cfg).log

\* the layer map once the loop over the blocks is through
FinalLayer == layering(cfg).layer

\* the calls that went on to resolve a block
Resolving(id) == {k \in 1..Len(Calls) : Calls[k].id = id /\ Calls[k].resolves}

\* the blocks a call found in resolution: visited and without a layer yet,
\* which are the blocks of the active recursion path
OnPath(k) == Calls[k].visited \ Calls[k].layered

\* C21: the layer assignment ends on every Cfg: assignLayer is called once
\* per listed block and once per edge between blocks, it starts resolving a
\* block only when the block was not visited before, so once per block; a
\* call for a block on the active recursion path returns 0 and a call for a
\* block that has its layer returns that layer, both without recursing.
C21_LayeringTerminates ==
  /\ Len(Calls) = Len(cfg.blocks) + Cardinality(WellFormed)
  /\ \A id \in blockIds(cfg) : Cardinality(Resolving(id)) = 1
  /\ \A k \in 1..Len(Calls) :
       /\ Calls[k].resolves <=> Calls[k].id \notin Calls[k].visited
       /\ Calls[k].id \in OnPath(k) => Calls[k].l = 0
       /\ Calls[k].id \in Calls[k].layered => Calls[k].l = FinalLayer[Calls[k].id]

\* a layout whose Cfg has a self-loop and a longer cycle: a call found
\* another block than the last one visited on the active path, a call found
\* a block that an earlier call had given a layer above 0
C21_Witness ==
  /\ \E i \in WellFormed : cfg.edges[i].from = cfg.edges[i].to
  /\ \E k \in 2..Len(Calls) :
       /\ Calls[k].id \in OnPath(k)
       /\ Calls[k].id # Calls[k - 1].id
       /\ Calls[k].l = 0
  /\ \E k \in 1..Len(Calls) :
       /\ Calls[k].id \in Calls[k].layered
       /\ Calls[k].l > 0
  /\ Len(layoutBlocks) = Len(cfg.blocks)

\* C22: in every layout that is not empty the least row is 0, and the
\* blocks placed at y = 0 are in row 0.
C22_TopRowZero ==
  Len(layoutBlocks) > 0 =>
    /\ MinOf({layoutBlocks[j].row : j \in 1..Len(layoutBlocks)}) = 0
    /\ \A j \in 1..Len(layoutBlocks) : layoutBlocks[j].y = 0 => layoutBlocks[j].row = 0

====
